---- MODULE Spec2Model ----
(***************************************************************************)
(* A model of salt/state.py: the State class (chunk validation, the call  *)
(* binder, the template and low-data compilers, the require-driven         *)
(* executor) and the top_matches and render_highstate stages of HighState, *)
(* and of the request path of saltapi/netapi/rest_cherrypy: the salt_auth  *)
(* tool and the handlers of LowDataAdapter and Login.                      *)
(*                                                                         *)
(* Python dicts are TLA+ functions whose DOMAIN is the key set             *)
(* (has_key(k) is k \in DOMAIN d); lists are sequences.  A recursive call  *)
(* of call_chunk is a frame pushed on `stack`.                             *)
(***************************************************************************)
EXTENDS Integers, Sequences, FiniteSets, TLC

VARIABLES
    arg,        \* the argument of a direct call: high (compile_high_data) or data (verify_data);
                \* in a run of several passes, the calls the caller has still to make
    states,     \* self.states: "state.fun" -> argspec of the registered action
    chunks,     \* the chunk list call_high compiled / call_chunks was given
    running,    \* the run ledger: tag -> {changes, result, comment}
    stack,      \* the active call_chunk calls, innermost last
    idx,        \* position of call_chunks' for loop in chunks
    phase,      \* where call_high is: "start", "running", "done"
    ret,        \* what call_high returned: <<"none">>, <<"errors", e>>, <<"ledger", l>>
    calls,      \* per chunk: how many times its action has been invoked
    outcomes,   \* per chunk: the results its action has returned so far
    files,      \* the file system: path -> text of the file
    opts,       \* self.opts: the configuration (the renderer's name)
    matcher,    \* self.matcher.confirm_top: what it answers to each argument
    setorder,   \* the interpreter's iteration order of sets, as a ranking of
                \* the elements; <<>> when a run iterates each set once, in
                \* any order
    session,    \* the REST server's session store: session id -> cherrypy.session
    request,    \* cherrypy.request: the request being served and where it is
    response,   \* cherrypy.response: status and headers of the last answer
    issued      \* the tokens and X-Auth-Token values successful logins handed out

\* What lies outside the State object: files, configuration, collaborators
\* and the interpreter.
frontend == <<session, request, response, issued>>

world == <<files, opts, matcher, setorder, frontend>>

vars == <<arg, states, chunks, running, stack, idx, phase, ret, calls, outcomes, world>>

(***************************************************************************)
(* Bounds.                                                                 *)
(***************************************************************************)
MaxChunks == 3

\* The most rules (state modules with their run lists) of a high-data tree.
MaxRules == 2

\* The most parameters an action declares in the direct calls of verify_data.
MaxArgs == 2

\* The most state documents of a group (and files under the file root).
MaxDocs == 2

\* No acyclic list of n chunks nests call_chunk deeper than n + 1 frames; the
\* cap only cuts the unbounded recursion of a cyclic list.
MaxDepth == MaxChunks + 2

(***************************************************************************)
(* Small helpers for dicts and lists.                                      *)
(***************************************************************************)
EmptyDict == [k \in {} |-> TRUE]

\* No request is being served / nothing has been answered yet.
NoRequest == [stage |-> "none"]

NoResponse == [status |-> 0, headers |-> EmptyDict]

\* The REST server as start() leaves it: no session, no request, no token.
NoFrontEnd ==
    /\ session = EmptyDict
    /\ request = NoRequest
    /\ response = NoResponse
    /\ issued = {}

\* The parts of the world a run does not touch: no files, the stock
\* renderer, a matcher that is never asked, no fixed iteration order, no
\* REST traffic.
Unused ==
    /\ files = EmptyDict
    /\ opts = [renderer |-> "yaml"]
    /\ matcher = EmptyDict
    /\ setorder = <<>>
    /\ NoFrontEnd

Range(s) == {s[i] : i \in DOMAIN s}

\* Sublists of seq s (order kept) with between 0 and n elements.
SubSeqs(s, n) ==
    LET pick(S) == [i \in 1..Cardinality(S) |->
                      s[CHOOSE k \in S : Cardinality({j \in S : j < k}) = i - 1]]
    IN  {pick(S) : S \in {T \in SUBSET (DOMAIN s) : Cardinality(T) <= n}}

(***************************************************************************)
(* The registered actions (self.states, built by the loader in __init__).  *)
(* An argspec is inspect.getargspec's (args, defaults): the declared       *)
(* parameter names and the defaults of the last Len(defaults) of them.     *)
(* Every state function takes `name` first (module docstring).             *)
(***************************************************************************)
Catalog ==
    [full \in {"file.absent", "file.managed", "pkg.installed", "svc.running"} |->
        CASE full = "file.absent"   -> [args |-> <<"name">>, defaults |-> <<>>]
          [] full = "file.managed"  -> [args |-> <<"name", "source">>, defaults |-> <<>>]
          [] full = "pkg.installed" -> [args |-> <<"name", "version">>, defaults |-> <<"latest">>]
          [] full = "svc.running"   -> [args |-> <<"name">>, defaults |-> <<>>]]

(***************************************************************************)
(* verify_data, verify_chunks                                              *)
(***************************************************************************)
MissingBase(data) ==
    (IF "state" \in DOMAIN data THEN <<>> ELSE <<"Missing \"state\" data">>)
    \o (IF "fun" \in DOMAIN data THEN <<>> ELSE <<"Missing \"fun\" data">>)
    \o (IF "name" \in DOMAIN data THEN <<>> ELSE <<"Missing \"name\" data">>)

\* MissingParams over range(arglen): the defaults are not discounted.
RECURSIVE MissingParams_all(_, _, _, _)
MissingParams_all(data, full, aspec, ind) ==
    IF ind > Len(aspec.args) THEN <<>>
    ELSE (IF aspec.args[ind] \in DOMAIN data THEN <<>>
          ELSE <<"Missing paramater " \o aspec.args[ind] \o " for state " \o full>>)
         \o MissingParams_all(data, full, aspec, ind + 1)

\* The loop of lines 64-67 over range(arglen - deflen), from index ind on
\* (0-based in the source, 1-based here).
RECURSIVE MissingParams(_, _, _, _)
MissingParams(data, full, aspec, ind) ==
    IF ind > Len(aspec.args) - Len(aspec.defaults) THEN <<>>
    ELSE (IF aspec.args[ind] \in DOMAIN data THEN <<>>
          ELSE <<"Missing paramater " \o aspec.args[ind] \o " for state " \o full>>)
         \o MissingParams(data, full, aspec, ind + 1)

verify_data(sts, data) ==
    LET errors == MissingBase(data) IN
    IF errors # <<>> THEN errors
    ELSE LET full == data.state \o "." \o data.fun IN
         IF full \notin DOMAIN sts
         THEN <<"Specified state " \o full \o " is unavailable.">>
         ELSE MissingParams(data, full, sts[full], 1)

\* A direct call of verify_data on the low data `arg`.
VerifyData ==
    /\ phase = "verify"
    /\ ret' = <<"errors", verify_data(states, arg)>>
    /\ phase' = "done"
    /\ UNCHANGED <<world, arg, states, chunks, running, stack, idx, calls, outcomes>>

RECURSIVE verify_chunks(_, _)
verify_chunks(sts, cs) ==
    IF cs = <<>> THEN <<>>
    ELSE verify_data(sts, Head(cs)) \o verify_chunks(sts, Tail(cs))

(***************************************************************************)
(* format_call.  A call either returns a value or raises: the outcome is   *)
(* <<"return", value>> or <<"KeyError", key>>.                             *)
(***************************************************************************)
\* Lines 104-107: the parameters (1-based positions) the loop over
\* range(arglen - 1, 0, -1) enters into kwargs; minus = arglen - ind counts
\* from the end, and the loop stops before index 0.
InKwargs(aspec, k) ==
    /\ k - 1 \in 1..(Len(aspec.args) - 1)
    /\ Len(aspec.defaults) - (Len(aspec.args) - (k - 1)) > -1

\* aspec[3][-minus] for the parameter at position k.
DefaultOf(aspec, k) ==
    aspec.defaults[Len(aspec.defaults) - (Len(aspec.args) - (k - 1)) + 1]

\* Lines 103-110: kwargs after the chunk's values replaced the defaults.
Kwargs(aspec, data) ==
    LET K == {k \in 1..Len(aspec.args) : InKwargs(aspec, k)} IN
    [a \in {aspec.args[k] : k \in K} |->
        IF a \in DOMAIN data THEN data[a]
        ELSE DefaultOf(aspec, CHOOSE k \in K : aspec.args[k] = a)]

\* Lines 111-115: the positions whose data[arg] raises.
Unbound(aspec, data) ==
    {k \in 1..Len(aspec.args) :
        aspec.args[k] \notin DOMAIN Kwargs(aspec, data) /\ aspec.args[k] \notin DOMAIN data}

format_call(sts, data) ==
    IF "state" \notin DOMAIN data THEN <<"KeyError", "state">>
    ELSE IF "fun" \notin DOMAIN data THEN <<"KeyError", "fun">>
    ELSE LET full == data.state \o "." \o data.fun IN
         IF full \notin DOMAIN sts THEN <<"KeyError", full>>
         ELSE LET aspec == sts[full]
                  kwargs == Kwargs(aspec, data)
                  bad == Unbound(aspec, data)
              IN  IF bad # {}
                  THEN <<"KeyError", aspec.args[CHOOSE k \in bad : \A j \in bad : k <= j]>>
                  ELSE <<"return",
                         [full |-> full,
                          args |-> [k \in 1..Len(aspec.args) |->
                                      IF aspec.args[k] \in DOMAIN kwargs
                                      THEN kwargs[aspec.args[k]]
                                      ELSE data[aspec.args[k]]]]>>

\* A direct call of format_call on the low data `arg`.
FormatCall ==
    /\ phase = "bind"
    /\ ret' = format_call(states, arg)
    /\ phase' = "done"
    /\ UNCHANGED <<world, arg, states, chunks, running, stack, idx, calls, outcomes>>

\* A direct call of State.call (lines 176-185) on the low data `arg`:
\* format_call binds the arguments and the action is invoked with them; an
\* exception of format_call leaves call before the action.  calls[1] and
\* outcomes[1] count the invocations of the one action.
Call ==
    /\ phase = "call"
    /\ LET cdata == format_call(states, arg) IN
       IF cdata[1] # "return"
       THEN /\ ret' = cdata
            /\ UNCHANGED <<calls, outcomes>>
       ELSE \E ok \in BOOLEAN :
               /\ ret' = <<"return", [changes |-> "changes", result |-> ok,
                                      comment |-> IF ok THEN "done" ELSE "action failed"]>>
               /\ calls' = [calls EXCEPT ![1] = @ + 1]
               /\ outcomes' = [outcomes EXCEPT ![1] = @ \cup {ok}]
    /\ phase' = "done"
    /\ UNCHANGED <<world, arg, states, chunks, running, stack, idx>>

(***************************************************************************)
(* The executor: check_requires, call_chunk, call_chunks, call_high        *)
(***************************************************************************)
Tag(low) == low.state \o "." \o low.name \o "." \o low.fun

\* req.keys()[0] of a single-entry require mapping {state: name}.
ReqKey(req) == CHOOSE k \in DOMAIN req : TRUE

\* The inner loop of lines 205-208 / 234-237: the chunks (as positions of
\* the list, in list order) with the require entry's name and state.
Matching(req, cs) ==
    SelectSeq([i \in 1..Len(cs) |-> i],
              LAMBDA i : cs[i].name = req[ReqKey(req)] /\ cs[i].state = ReqKey(req))

\* The outer loop over low['require']: reqs, in require order then list order.
RECURSIVE ReqsOf(_, _)
ReqsOf(require, cs) ==
    IF require = <<>> THEN <<>>
    ELSE Matching(Head(require), cs) \o ReqsOf(Tail(require), cs)

\* FunStat with a required chunk that is not in the ledger taken as met.
FunStat_absentMet(run, req) ==
    IF Tag(req) \notin DOMAIN run THEN "met"
    ELSE IF run[Tag(req)].result THEN "met" ELSE "fail"

\* Lines 209-215: the status of one required chunk against the ledger.
FunStat(run, req) ==
    IF Tag(req) \notin DOMAIN run THEN "unmet"
    ELSE IF run[Tag(req)].result THEN "met" ELSE "fail"

\* FirstStat without the `elif stat == 'fail'` branch.
RECURSIVE FirstStat_noFail(_)
FirstStat_noFail(fun_stats) ==
    IF fun_stats = <<>> THEN "met"
    ELSE IF Head(fun_stats) = "unmet" THEN "unmet"
    ELSE FirstStat_noFail(Tail(fun_stats))

\* FirstStat returning the variable `status` of line 203 at the end.
RECURSIVE FirstStat_status(_)
FirstStat_status(fun_stats) ==
    IF fun_stats = <<>> THEN "unmet"
    ELSE IF Head(fun_stats) \in {"unmet", "fail"} THEN Head(fun_stats)
    ELSE FirstStat_status(Tail(fun_stats))

\* Lines 216-221: the first status in list order that is unmet or fail.
RECURSIVE FirstStat(_)
FirstStat(fun_stats) ==
    IF fun_stats = <<>> THEN "met"
    ELSE IF Head(fun_stats) \in {"unmet", "fail"} THEN Head(fun_stats)
    ELSE FirstStat(Tail(fun_stats))

check_requires(low, run, cs) ==
    IF "require" \notin DOMAIN low THEN "met"
    ELSE LET reqs == ReqsOf(low.require, cs)
             fun_stats == [k \in 1..Len(reqs) |-> FunStat(run, cs[reqs[k]])]
         IN  FirstStat(fun_stats)

\* What a state function returns (result is its verdict), and the result
\* call_chunk makes up for a chunk whose requirement failed.
ActionReturn(ok) ==
    [changes |-> "changes", result |-> ok,
     comment |-> IF ok THEN "done" ELSE "action failed"]

RequireFailed ==
    [changes |-> "None", result |-> FALSE, comment |-> "One or more require failed"]

\* Record with the assignment lost.
Record_lost(run, tag, value) == run

\* running[tag] = value
Record(run, tag, value) == (tag :> value) @@ run

\* RecordFailure with no entry written.
RecordFailure_skipped(run, tag) == run

\* Lines 244-246: the made-up failure is recorded under the chunk's tag.
RecordFailure(run, tag) == Record(run, tag, RequireFailed)

Frame(i) == [low |-> i, pc |-> "call", reqs |-> <<>>]

Top == stack[Len(stack)]

Pop == SubSeq(stack, 1, Len(stack) - 1)

SetTop(f) == [stack EXCEPT ![Len(stack)] = f]

\* CallHigh without the `if errors: return errors` of lines 259-260.
CallHigh_noAbort ==
    /\ phase = "start"
    /\ phase' = "running"
    /\ UNCHANGED <<world, arg, states, chunks, running, stack, idx, ret, calls, outcomes>>

\* call_high up to the decision of lines 258-261: the chunks are verified and
\* either the errors are returned or call_chunks starts with an empty ledger.
CallHigh ==
    /\ phase = "start"
    /\ LET errors == verify_chunks(states, chunks) IN
       IF errors # <<>>
       THEN /\ phase' = "done"
            /\ ret' = <<"errors", errors>>
       ELSE /\ phase' = "running"
            /\ ret' = ret
    /\ UNCHANGED <<world, arg, states, chunks, running, stack, idx, calls, outcomes>>

\* call_chunks' for loop: the next chunk of the list is handed to call_chunk.
CallChunksNext ==
    /\ phase = "running"
    /\ stack = <<>>
    /\ idx <= Len(chunks)
    /\ stack' = <<Frame(idx)>>
    /\ idx' = idx + 1
    /\ UNCHANGED <<world, arg, states, chunks, running, phase, ret, calls, outcomes>>

\* call_chunks returns the ledger (and call_high returns it).
CallChunksReturn ==
    /\ phase = "running"
    /\ stack = <<>>
    /\ idx > Len(chunks)
    /\ phase' = "done"
    /\ ret' = <<"ledger", running>>
    /\ UNCHANGED <<world, arg, states, chunks, running, stack, idx, calls, outcomes>>

\* CallChunksAgain with the ledger of the pass before kept.
CallChunksAgain_stale ==
    /\ phase = "done"
    /\ ret[1] = "ledger"
    /\ arg # <<>>
    /\ Head(arg) = "call_chunks"
    /\ arg' = Tail(arg)
    /\ idx' = 1
    /\ phase' = "running"
    /\ UNCHANGED <<world, states, chunks, running, stack, ret, calls, outcomes>>

\* The caller, holding the ledger a pass returned, calls call_chunks on the
\* same list once more: line 191 starts the pass with running = {}.
CallChunksAgain ==
    /\ phase = "done"
    /\ ret[1] = "ledger"
    /\ arg # <<>>
    /\ Head(arg) = "call_chunks"
    /\ arg' = Tail(arg)
    /\ running' = EmptyDict
    /\ idx' = 1
    /\ phase' = "running"
    /\ UNCHANGED <<world, states, chunks, stack, ret, calls, outcomes>>

\* self.call(low): the action is invoked and returns; its result is recorded
\* under the chunk's tag (lines 242 and 248) and call_chunk returns.
Invoke(i, ok) ==
    /\ running' = Record(running, Tag(chunks[i]), ActionReturn(ok))
    /\ calls' = [calls EXCEPT ![i] = @ + 1]
    /\ outcomes' = [outcomes EXCEPT ![i] = @ \cup {ok}]
    /\ stack' = Pop

\* call_chunk on a chunk without `require` (line 248).
CallChunkPlain ==
    /\ stack # <<>>
    /\ Top.pc = "call"
    /\ "require" \notin DOMAIN chunks[Top.low]
    /\ \E ok \in BOOLEAN : Invoke(Top.low, ok)
    /\ UNCHANGED <<world, arg, states, chunks, idx, phase, ret>>

\* call_chunk with status met (line 242).
CallChunkMet ==
    /\ stack # <<>>
    /\ Top.pc = "call"
    /\ "require" \in DOMAIN chunks[Top.low]
    /\ check_requires(chunks[Top.low], running, chunks) = "met"
    /\ \E ok \in BOOLEAN : Invoke(Top.low, ok)
    /\ UNCHANGED <<world, arg, states, chunks, idx, phase, ret>>

\* call_chunk with status fail (lines 243-246).
CallChunkFail ==
    /\ stack # <<>>
    /\ Top.pc = "call"
    /\ "require" \in DOMAIN chunks[Top.low]
    /\ check_requires(chunks[Top.low], running, chunks) = "fail"
    /\ running' = RecordFailure(running, Tag(chunks[Top.low]))
    /\ stack' = Pop
    /\ UNCHANGED <<world, arg, states, chunks, idx, phase, ret, calls, outcomes>>

\* call_chunk with status unmet (lines 231-237): reqs is collected.
CallChunkUnmet ==
    /\ stack # <<>>
    /\ Top.pc = "call"
    /\ "require" \in DOMAIN chunks[Top.low]
    /\ check_requires(chunks[Top.low], running, chunks) = "unmet"
    /\ stack' = SetTop([Top EXCEPT !.pc = "reqs",
                                   !.reqs = ReqsOf(chunks[Top.low].require, chunks)])
    /\ UNCHANGED <<world, arg, states, chunks, running, idx, phase, ret, calls, outcomes>>

\* Lines 238-239: call_chunk is called on the next chunk of reqs.
ResolveReq ==
    /\ stack # <<>>
    /\ Top.pc = "reqs"
    /\ Top.reqs # <<>>
    /\ Len(stack) < MaxDepth
    /\ stack' = Append(SetTop([Top EXCEPT !.reqs = Tail(@)]), Frame(Head(Top.reqs)))
    /\ UNCHANGED <<world, arg, states, chunks, running, idx, phase, ret, calls, outcomes>>

\* Line 240: after reqs, call_chunk is called on the chunk itself again.
Retry ==
    /\ stack # <<>>
    /\ Top.pc = "reqs"
    /\ Top.reqs = <<>>
    /\ Len(stack) < MaxDepth
    /\ stack' = Append(SetTop([Top EXCEPT !.pc = "retried"]), Frame(Top.low))
    /\ UNCHANGED <<world, arg, states, chunks, running, idx, phase, ret, calls, outcomes>>

\* Line 249 after the retry came back: call_chunk returns running.
ReturnChunk ==
    /\ stack # <<>>
    /\ Top.pc = "retried"
    /\ stack' = Pop
    /\ UNCHANGED <<world, arg, states, chunks, running, idx, phase, ret, calls, outcomes>>

(***************************************************************************)
(* compile_high_data.  high is a dict name -> body, body a dict            *)
(* state -> run; both are given as the list their .items() iterates, so    *)
(* the iteration order of the dict is part of the input.  A run element is *)
(* [str |-> s] (a Python str) or [dict |-> d].  The iteration order of the *)
(* sets funcs and names is not fixed by the language: every order is an    *)
(* outcome.                                                                *)
(***************************************************************************)
\* The bytes of the strings sorted() compares.
Code(str) ==
    CASE str = "file"    -> <<102, 105, 108, 101>>
      [] str = "pkg"     -> <<112, 107, 103>>
      [] str = "a"       -> <<97>>
      [] str = "b"       -> <<98>>
      [] str = "x"       -> <<120>>
      [] str = "y"       -> <<121>>
      [] str = "absent"  -> <<97, 98, 115, 101, 110, 116>>
      [] str = "managed" -> <<109, 97, 110, 97, 103, 101, 100>>

\* Python's <= on strings.
RECURSIVE StrLeq(_, _)
StrLeq(u, v) ==
    IF u = <<>> THEN TRUE
    ELSE IF v = <<>> THEN FALSE
    ELSE IF Head(u) # Head(v) THEN Head(u) < Head(v)
    ELSE StrLeq(Tail(u), Tail(v))

\* The sort key of line 154: k['state'] + k['name'] + k['fun'].
SortKey(k) == Code(k.state) \o Code(k.name) \o Code(k.fun)

\* Sorted with the list left in the order it was built.
Sorted_asBuilt(cs) == cs

\* sorted() is stable: a chunk goes after the chunks whose key is <= its own.
RECURSIVE Sorted(_)
Sorted(cs) ==
    IF cs = <<>> THEN <<>>
    ELSE LET front == Sorted(SubSeq(cs, 1, Len(cs) - 1))
             c == cs[Len(cs)]
             n == Cardinality({i \in 1..Len(front) : StrLeq(SortKey(front[i]), SortKey(c))})
         IN  SubSeq(front, 1, n) \o <<c>> \o SubSeq(front, n + 1, Len(front))

\* The orders in which a set may be iterated.
RECURSIVE Orders(_)
Orders(S) ==
    IF S = {} THEN {<<>>} ELSE UNION {{<<e>> \o p : p \in Orders(S \ {e})} : e \in S}

\* The elements of S in the interpreter's iteration order.
Ranked(S) ==
    LET rank(e) == CHOOSE k \in DOMAIN setorder : setorder[k] = e IN
    [i \in 1..Cardinality(S) |->
        CHOOSE e \in S : Cardinality({d \in S : rank(d) < rank(e)}) = i - 1]

\* The orders in which `for x in S` may go through the set S.
Iterations(S) == IF setorder = <<>> THEN Orders(S) ELSE {Ranked(S)}

\* Lines 131-133: the str elements of the run list.
Funcs(run) == {run[i].str : i \in {k \in 1..Len(run) : "str" \in DOMAIN run[k]}}

\* Lines 136-137: the values of every `names` key.
AltNames(run) ==
    UNION {Range(run[i].dict["names"]) :
             i \in {k \in 1..Len(run) : "dict" \in DOMAIN run[k]
                                        /\ "names" \in DOMAIN run[k].dict}}

\* Template without the chunk.update(arg) of line 140.
Template_noUpdate(chunk, run) == chunk

\* Lines 134-140: chunk.update(arg) for every dict element that has a key
\* other than `names`; the whole element is merged.
RECURSIVE Template(_, _)
Template(chunk, run) ==
    IF run = <<>> THEN chunk
    ELSE LET el == Head(run) IN
         IF "dict" \in DOMAIN el /\ DOMAIN el.dict \ {"names"} # {}
         THEN Template(el.dict @@ chunk, Tail(run))
         ELSE Template(chunk, Tail(run))

\* Lines 143-147 and 149-152: live is copied once and appended once per
\* function, so after the loop every appended element is the one dict live,
\* which holds the function assigned last.
Appended(live, fo) ==
    [k \in 1..Len(fo) |-> ("fun" :> fo[Len(fo)]) @@ live]

RECURSIVE Flatten(_)
Flatten(ss) == IF ss = <<>> THEN <<>> ELSE Head(ss) \o Flatten(Tail(ss))

\* One pass of the loop body of lines 126-152 for (state, run) with the
\* variable `name` as it is then: the chunks appended and `name` afterwards
\* (`for name in names` rebinds the variable of the outer loop).
RuleOutcomes(name, state, run) ==
    LET chunk == Template([state |-> state, name |-> name], run)
        funcs == Funcs(run)
        names == AltNames(run)
    IN  IF names # {}
        THEN {[chunks |-> Flatten([k \in 1..Len(no) |->
                                     Appended(("name" :> no[k]) @@ chunk, fo)]),
               name |-> no[Len(no)]] : no \in Iterations(names), fo \in Iterations(funcs)}
        ELSE {[chunks |-> Appended(chunk, fo), name |-> name] : fo \in Iterations(funcs)}

\* The loop of line 125 over body.items(), from the given value of `name`.
RECURSIVE BodyOutcomes(_, _)
BodyOutcomes(name, body) ==
    IF body = <<>> THEN {<<>>}
    ELSE UNION {{r.chunks \o rest : rest \in BodyOutcomes(r.name, Tail(body))}
                  : r \in RuleOutcomes(name, Head(body).state, Head(body).run)}

\* The loop of line 124 over high.items(): the lists `chunks` may be.
RECURSIVE HighOutcomes(_)
HighOutcomes(high) ==
    IF high = <<>> THEN {<<>>}
    ELSE {b \o rest : b \in BodyOutcomes(Head(high).name, Head(high).body),
                      rest \in HighOutcomes(Tail(high))}

\* What compile_high_data may return.
compile_high_data(high) == {Sorted(cs) : cs \in HighOutcomes(high)}

CompileHighData ==
    /\ phase = "compile"
    /\ \E out \in compile_high_data(arg) : ret' = <<"chunks", out>>
    /\ phase' = "done"
    /\ UNCHANGED <<world, arg, states, chunks, running, stack, idx, calls, outcomes>>

\* The first of two compilations of the same high data `arg` by the same
\* interpreter.
CompileFirst ==
    /\ phase = "compile twice"
    /\ \E out \in compile_high_data(arg) : ret' = <<"chunks", out>>
    /\ phase' = "compile"
    /\ UNCHANGED <<world, arg, states, chunks, running, stack, idx, calls, outcomes>>

(***************************************************************************)
(* compile_template, compile_template_str and render_highstate.  Here high *)
(* data is the dict itself (name -> body, body: state -> run list).  The   *)
(* text of a document is represented by what the renderer makes of it:     *)
(* the high data it returns, or nothing when the text is malformed and the *)
(* renderer raises.                                                        *)
(***************************************************************************)
\* self.rend (line 38): the renderers the loader found.
Rend == {"yaml", "json"}

Bodies == {[file |-> <<"managed">>], [pkg |-> <<"installed">>]}

HighDocs == UNION {[N -> Bodies] : N \in SUBSET {"a", "b"}}

Malformed == [ok |-> FALSE, high |-> EmptyDict]

Texts == {[ok |-> TRUE, high |-> h] : h \in HighDocs} \cup {Malformed}

\* A renderer called on the file at path.
Render(fs, path) ==
    IF fs[path].ok THEN <<"return", fs[path].high>> ELSE <<"raised", "render error">>

\* self.rend[self.opts['renderer']](path), lines 163 and 172.
RendCall(fs, o, path) ==
    IF o.renderer \notin Rend THEN <<"KeyError", o.renderer>> ELSE Render(fs, path)

\* Lines 156-163.
compile_template(fs, o, template) ==
    IF template \notin DOMAIN fs THEN <<"return", EmptyDict>>
    ELSE RendCall(fs, o, template)

\* The names tempfile.mkstemp may choose; it creates a file that did not
\* exist.
TmpPaths == {"/tmp/tmpA", "/tmp/tmpB"}

\* os.remove(path)
Remove(fs, path) == [q \in DOMAIN fs \ {path} |-> fs[q]]

\* compile_template_str (lines 165-174) on the literal text `arg`: the
\* text is written to a new temporary file and rendered; when the renderer
\* returned, the file is removed and the high data returned; an exception
\* of line 172 leaves the function there.
CompileTemplateStr ==
    /\ phase = "template"
    /\ \E fn \in TmpPaths \ DOMAIN files :
          LET written == (fn :> arg) @@ files
              high == RendCall(written, opts, fn)
          IN  /\ ret' = high
              /\ files' = IF high[1] = "return" THEN Remove(written, fn) ELSE written
    /\ phase' = "done"
    /\ UNCHANGED <<opts, matcher, setorder, frontend, arg, states, chunks, running, stack,
                   idx, calls, outcomes>>

\* Update with the keys already present kept.
Update_keep(d, e) == d @@ e

\* d.update(e)
Update(d, e) == e @@ d

\* Lines 364-367 from the document at position k of group on: the loop
\* ends at the first compile_template that raises.
RECURSIVE render_highstate(_, _, _, _, _)
render_highstate(fs, o, group, k, highstate) ==
    IF k > Len(group) THEN <<"return", highstate>>
    ELSE LET high == compile_template(fs, o, group[k]) IN
         IF high[1] # "return" THEN high
         ELSE render_highstate(fs, o, group, k + 1, Update(highstate, high[2]))

\* render_highstate on the group `arg`.
RenderHighstate ==
    /\ phase = "render"
    /\ ret' = render_highstate(files, opts, arg, 1, EmptyDict)
    /\ phase' = "done"
    /\ UNCHANGED <<world, arg, states, chunks, running, stack, idx, calls, outcomes>>

(***************************************************************************)
(* top_matches.  top is a dict env -> body, body a dict match -> data;     *)
(* both are given as the list their .items() iterates.  data is a list of  *)
(* [str |-> s] and [dict |-> d] elements.  The matcher is a collaborator:  *)
(* `matcher` holds what confirm_top answers to each argument it may get, a *)
(* str [str |-> s] or a list [list |-> l].                                 *)
(***************************************************************************)
\* Lines 343-345: the str items of data appended to the list.
RECURSIVE Collected(_, _)
Collected(list, data) ==
    IF data = <<>> THEN list
    ELSE Collected(IF "str" \in DOMAIN Head(data) THEN Append(list, Head(data).str)
                   ELSE list,
                   Tail(data))

\* Lines 339-345 for the items of one body: confirm_top is called with the
\* target list `data`.
RECURSIVE BodyMatches(_, _, _, _)
BodyMatches(mt, matches, env, body) ==
    IF body = <<>> THEN matches
    ELSE LET data == Head(body).data IN
         IF mt[[list |-> data]]
         THEN LET had == IF env \in DOMAIN matches THEN matches[env] ELSE <<>> IN
              BodyMatches(mt, (env :> Collected(had, data)) @@ matches, env, Tail(body))
         ELSE BodyMatches(mt, matches, env, Tail(body))

\* Lines 337-346.
RECURSIVE top_matches(_, _, _)
top_matches(mt, matches, top) ==
    IF top = <<>> THEN matches
    ELSE top_matches(mt, BodyMatches(mt, matches, Head(top).env, Head(top).body),
                     Tail(top))

\* top_matches on the top data `arg`.
TopMatches ==
    /\ phase = "top"
    /\ ret' = <<"return", top_matches(matcher, EmptyDict, arg)>>
    /\ phase' = "done"
    /\ UNCHANGED <<world, arg, states, chunks, running, stack, idx, calls, outcomes>>

(***************************************************************************)
(* The chunk lists of the executor's runs: what compile_high_data hands to *)
(* verify_chunks and call_chunks, sorted by state + name + fun.            *)
(***************************************************************************)
Targets == {("file" :> "a"), ("pkg" :> "b"), ("svc" :> "c")}

\* The `require` a chunk carries: none, or a list of up to two entries.
Requires ==
    {<<>>} \cup {<<r>> : r \in Targets}
           \cup {p \in Targets \X Targets : p[1] # p[2]}

\* The chunks compile_high_data may output, in sort order: the second one
\* with or without the `source` its action declares, the last one with a
\* registered function or with one the catalog does not have.
BaseChunks ==
    << <<[state |-> "file", name |-> "a", fun |-> "absent"]>>,
       <<[state |-> "file", name |-> "a", fun |-> "managed", source |-> "salt://a"],
         [state |-> "file", name |-> "a", fun |-> "managed"]>>,
       <<[state |-> "pkg", name |-> "b", fun |-> "installed"]>>,
       <<[state |-> "svc", name |-> "c", fun |-> "running"],
         [state |-> "svc", name |-> "c", fun |-> "started"]>> >>

NoRequire == "none"

WithRequire(c, r) == IF r = NoRequire THEN c ELSE c @@ ("require" :> r)

\* The chunk list made of the chosen variants of the chosen base chunks,
\* each with the chosen require.
ChunkList(pos, variant, require) ==
    [k \in 1..Len(pos) |-> WithRequire(BaseChunks[pos[k]][variant[k]], require[k])]

Init ==
    /\ arg = <<>>
    /\ states = Catalog
    /\ \E pos \in SubSeqs(<<1, 2, 3, 4>>, MaxChunks) :
         \E variant \in [1..Len(pos) -> {1, 2}] :
            /\ \A k \in 1..Len(pos) : variant[k] <= Len(BaseChunks[pos[k]])
            /\ \E require \in [1..Len(pos) -> {NoRequire} \cup Requires] :
                  chunks = ChunkList(pos, variant, require)
    /\ running = EmptyDict
    /\ stack = <<>>
    /\ idx = 1
    /\ phase = "start"
    /\ ret = <<"none">>
    /\ calls = [i \in 1..Len(chunks) |-> 0]
    /\ outcomes = [i \in 1..Len(chunks) |-> {}]
    /\ Unused

Next ==
    \/ CallHigh
    \/ CallChunksNext
    \/ CallChunksReturn
    \/ CallChunkPlain
    \/ CallChunkMet
    \/ CallChunkFail
    \/ CallChunkUnmet
    \/ ResolveReq
    \/ Retry
    \/ ReturnChunk

Spec == Init /\ [][Next]_vars

(***************************************************************************)
(* The high-data trees compile_high_data is applied to.                    *)
(***************************************************************************)
FunLists == {<<[str |-> "managed"]>>, <<[str |-> "managed"], [str |-> "absent"]>>}

NamesLists == {<<"x">>, <<"x", "y">>}

\* The dict elements of a run list: none, parameters, `names`, both in two
\* elements, both in one element.
DictLists ==
    {<<>>, <<[dict |-> [source |-> "salt://s"]]>>}
    \cup {<<[dict |-> [names |-> n]]>> : n \in NamesLists}
    \cup {<<[dict |-> [names |-> n]], [dict |-> [source |-> "salt://s"]]>> : n \in NamesLists}
    \cup {<<[dict |-> ("names" :> n) @@ ("source" :> "salt://s")]>> : n \in NamesLists}

RunLists == {f \o d : f \in FunLists, d \in DictLists}

\* The orders of the non-empty subsets of S, and of all its subsets.
SomeOrders(S) == UNION {Orders(T) : T \in SUBSET S \ {{}}}

AnyOrders(S) == UNION {Orders(T) : T \in SUBSET S}

RECURSIVE SumLen(_)
SumLen(ss) == IF ss = <<>> THEN 0 ELSE Len(Head(ss)) + SumLen(Tail(ss))

\* The tree with the top-level names of top, under name k the state modules
\* of shape[k], and the run lists of runs in that order.
HighOf(top, shape, runs) ==
    [k \in 1..Len(top) |->
        [name |-> top[k],
         body |-> [j \in 1..Len(shape[k]) |->
                     [state |-> shape[k][j],
                      run |-> runs[SumLen(SubSeq(shape, 1, k - 1)) + j]]]]]

CompileInit ==
    /\ \E top \in AnyOrders({"a", "b"}) :
         \E shape \in [1..Len(top) -> SomeOrders({"file", "pkg"})] :
            /\ SumLen(shape) <= MaxRules
            /\ \E runs \in [1..SumLen(shape) -> RunLists] :
                  arg = HighOf(top, shape, runs)
    /\ states = Catalog
    /\ chunks = <<>>
    /\ running = EmptyDict
    /\ stack = <<>>
    /\ idx = 1
    /\ phase = "compile"
    /\ ret = <<"none">>
    /\ calls = <<>>
    /\ outcomes = <<>>
    /\ Unused

CompileNext == CompileHighData

CompileSpec == CompileInit /\ [][CompileNext]_vars

\* Two compilations of one tree: the rules list one or two functions, with
\* or without alternate names, and the interpreter iterates a set in the
\* order its ranking gives.
TwiceRunLists == {f \o d : f \in FunLists, d \in {<<>>, <<[dict |-> [names |-> <<"x", "y">>]]>>}}

Rankings == {f \o n : f \in Orders({"managed", "absent"}), n \in Orders({"x", "y"})}

RecompileInit ==
    /\ \E top \in AnyOrders({"a", "b"}) :
         \E shape \in [1..Len(top) -> SomeOrders({"file", "pkg"})] :
            /\ SumLen(shape) <= MaxRules
            /\ \E runs \in [1..SumLen(shape) -> TwiceRunLists] :
                  arg = HighOf(top, shape, runs)
    /\ setorder \in Rankings
    /\ NoFrontEnd
    /\ files = EmptyDict
    /\ opts = [renderer |-> "yaml"]
    /\ matcher = EmptyDict
    /\ states = Catalog
    /\ chunks = <<>>
    /\ running = EmptyDict
    /\ stack = <<>>
    /\ idx = 1
    /\ phase = "compile twice"
    /\ ret = <<"none">>
    /\ calls = <<>>
    /\ outcomes = <<>>

RecompileNext == CompileFirst \/ CompileHighData

RecompileSpec == RecompileInit /\ [][RecompileNext]_vars

(***************************************************************************)
(* The direct calls of verify_data: one registered action, file.managed,   *)
(* with any signature of up to MaxArgs parameters and any number of        *)
(* trailing defaults, and low data with any subset of the keys.            *)
(***************************************************************************)
ParamNames == <<"name", "source", "user", "group">>

ArgLists == {SubSeq(ParamNames, a, a + n - 1) : a \in 1..2, n \in 0..MaxArgs}

ArgSpecs ==
    UNION {{[args |-> al, defaults |-> [k \in 1..d |-> "default " \o al[Len(al) - d + k]]]
              : d \in 0..Len(al)} : al \in ArgLists}

DataKeys == {"state", "fun"} \cup Range(SubSeq(ParamNames, 1, MaxArgs + 1))

\* The low data with the keys of K; fun names a registered function or not.
DataOf(K, fun) ==
    [k \in K |-> CASE k = "state" -> "file"
                   [] k = "fun"   -> fun
                   [] OTHER       -> "value of " \o k]

VerifyInit ==
    /\ \E K \in SUBSET DataKeys : \E fun \in {"managed", "missing"} :
          arg = DataOf(K, fun)
    /\ \E aspec \in ArgSpecs : states = ("file.managed" :> aspec)
    /\ chunks = <<>>
    /\ running = EmptyDict
    /\ stack = <<>>
    /\ idx = 1
    /\ phase = "verify"
    /\ ret = <<"none">>
    /\ calls = <<>>
    /\ outcomes = <<>>
    /\ Unused

VerifyNext == VerifyData

VerifySpec == VerifyInit /\ [][VerifyNext]_vars

\* The direct calls of format_call, on the same low data and signatures.
BindInit ==
    /\ \E K \in SUBSET DataKeys : \E fun \in {"managed", "missing"} :
          arg = DataOf(K, fun)
    /\ \E aspec \in ArgSpecs : states = ("file.managed" :> aspec)
    /\ chunks = <<>>
    /\ running = EmptyDict
    /\ stack = <<>>
    /\ idx = 1
    /\ phase = "bind"
    /\ ret = <<"none">>
    /\ calls = <<>>
    /\ outcomes = <<>>
    /\ Unused

BindNext == FormatCall

BindSpec == BindInit /\ [][BindNext]_vars

(***************************************************************************)
(* The documents of the file root, the groups gather_states hands to       *)
(* render_highstate and the literal texts given to compile_template_str.   *)
(***************************************************************************)
SlsPath(i) == "/srv/salt/" \o ToString(i) \o ".sls"

\* The file systems with documents at some of the paths of P.
FileSystems(P) == UNION {[Q -> Texts] : Q \in SUBSET P}

RenderInit ==
    /\ \E n \in 0..MaxDocs :
          /\ arg = [i \in 1..n |-> SlsPath(i)]
          /\ files \in FileSystems({SlsPath(i) : i \in 1..n})
    /\ opts \in {[renderer |-> r] : r \in Rend \cup {"mako"}}
    /\ matcher = EmptyDict
    /\ setorder = <<>>
    /\ NoFrontEnd
    /\ states = Catalog
    /\ chunks = <<>>
    /\ running = EmptyDict
    /\ stack = <<>>
    /\ idx = 1
    /\ phase = "render"
    /\ ret = <<"none">>
    /\ calls = <<>>
    /\ outcomes = <<>>

RenderNext == RenderHighstate

RenderSpec == RenderInit /\ [][RenderNext]_vars

TemplateInit ==
    /\ arg \in Texts
    /\ \E n \in 0..MaxDocs : files \in FileSystems({SlsPath(i) : i \in 1..n})
    /\ opts \in {[renderer |-> r] : r \in Rend \cup {"mako"}}
    /\ matcher = EmptyDict
    /\ setorder = <<>>
    /\ NoFrontEnd
    /\ states = Catalog
    /\ chunks = <<>>
    /\ running = EmptyDict
    /\ stack = <<>>
    /\ idx = 1
    /\ phase = "template"
    /\ ret = <<"none">>
    /\ calls = <<>>
    /\ outcomes = <<>>

TemplateNext == CompileTemplateStr

TemplateSpec == TemplateInit /\ [][TemplateNext]_vars

\* The direct calls of State.call, on the same low data and signatures.
CallInit ==
    /\ \E K \in SUBSET DataKeys : \E fun \in {"managed", "missing"} :
          arg = DataOf(K, fun)
    /\ \E aspec \in ArgSpecs : states = ("file.managed" :> aspec)
    /\ chunks = <<>>
    /\ running = EmptyDict
    /\ stack = <<>>
    /\ idx = 1
    /\ phase = "call"
    /\ ret = <<"none">>
    /\ calls = <<0>>
    /\ outcomes = <<{}>>
    /\ Unused

CallNext == Call

CallSpec == CallInit /\ [][CallNext]_vars

(***************************************************************************)
(* The top data top_matches is applied to, and the matchers.               *)
(***************************************************************************)
MatchExprs == {"web*", "db*"}

TargetLists ==
    {<<[str |-> "nginx"]>>, <<[str |-> "mysql"], [dict |-> [match |-> "pcre"]]>>}

\* The bodies: some match expressions, in any order, each with a target list.
TopBodies ==
    UNION {{[k \in 1..Len(ms) |-> [match |-> ms[k], data |-> ds[k]]]
              : ds \in [1..Len(ms) -> TargetLists]} : ms \in AnyOrders(MatchExprs)}

TopInit ==
    /\ \E envs \in AnyOrders({"base", "dev"}) :
          \E bodies \in [1..Len(envs) -> TopBodies] :
             arg = [k \in 1..Len(envs) |-> [env |-> envs[k], body |-> bodies[k]]]
    /\ matcher \in [{[str |-> e] : e \in MatchExprs} \cup {[list |-> l] : l \in TargetLists}
                      -> BOOLEAN]
    /\ files = EmptyDict
    /\ opts = [renderer |-> "yaml"]
    /\ setorder = <<>>
    /\ NoFrontEnd
    /\ states = Catalog
    /\ chunks = <<>>
    /\ running = EmptyDict
    /\ stack = <<>>
    /\ idx = 1
    /\ phase = "top"
    /\ ret = <<"none">>
    /\ calls = <<>>
    /\ outcomes = <<>>

TopNext == TopMatches

TopSpec == TopInit /\ [][TopNext]_vars

(***************************************************************************)
(* The REST front-end (saltapi/netapi/rest_cherrypy/__init__.py).          *)
(* A request goes through the tools of get_conf (the session of its cookie *)
(* is cherrypy.session, then salt_auth_tool) and then to the handler the   *)
(* MethodDispatcher finds for its path and method.  Python values are      *)
(* records: [str |-> s], [bool |-> b], [none |-> TRUE]; a path is the      *)
(* sequence of its characters.                                             *)
(***************************************************************************)
Str(s) == [str |-> s]

False == [bool |-> FALSE]

None == [none |-> TRUE]

\* Python's truth value of a str, a bool or None.
Truthy(v) ==
    IF "str" \in DOMAIN v THEN v.str # ""
    ELSE IF "bool" \in DOMAIN v THEN v.bool
    ELSE FALSE

\* a or b
Or(a, b) == IF Truthy(a) THEN a ELSE b

\* d.get(k, default)
Get(d, k, default) == IF k \in DOMAIN d THEN d[k] ELSE default

\* p.startswith(q)
StartsWith(p, q) == Len(p) >= Len(q) /\ SubSeq(p, 1, Len(q)) = q

RootUrl == <<"/">>

LoginUrl == <<"/", "l", "o", "g", "i", "n">>

\* url_map: the paths that have a handler.
Paths == {RootUrl, LoginUrl}

Methods == {"GET", "POST"}

\* The session ids a client's cookie can name.
SessionIds == {"s1", "s2"}

\* The tokens mk_token can return.
Tokens == {"t1", "t2"}

\* The headers of a request: no X-Auth-Token, or one with a value the
\* client chose (an empty one, a session id, a token, anything else).
HeaderValues == {"", "bogus"} \cup SessionIds \cup Tokens

Headers == {EmptyDict} \cup {("X-Auth-Token" :> Str(h)) : h \in HeaderValues}

\* What auth.mk_token(kwargs) returns: a dict with the new token, or one
\* without 'token' when the credentials were refused.
MkTokenResults == {EmptyDict} \cup {("token" :> Str(t)) : t \in Tokens}

\* cherrypy.session during the request.
Session == session[request.cookie]

\* Lines 43-44: the session's token or else the X-Auth-Token header.
Sid == Or(Get(Session, "token", None), Get(request.headers, "X-Auth-Token", None))

\* A request arrives; the sessions tool finds or creates the session of its
\* cookie.
Receive ==
    /\ request.stage \in {"none", "done"}
    /\ \E c \in SessionIds, p \in Paths, mth \in Methods, h \in Headers :
          /\ request' = [stage |-> "tools", cookie |-> c, path |-> p, method |-> mth,
                         headers |-> h, redirected |-> FALSE]
          /\ session' = IF c \in DOMAIN session THEN session
                        ELSE (c :> EmptyDict) @@ session
    /\ response' = NoResponse
    /\ UNCHANGED <<files, opts, matcher, setorder, issued, arg, states, chunks, running,
                   stack, idx, phase, ret, calls, outcomes>>

\* Lines 39-49.  InternalRedirect serves the request again under the new
\* path, tools included.
SaltAuthTool ==
    /\ request.stage = "tools"
    /\ IF ~StartsWith(request.path, LoginUrl) /\ ~Truthy(Sid)
       THEN /\ request' = [request EXCEPT !.path = LoginUrl, !.redirected = TRUE]
            /\ UNCHANGED response
       ELSE /\ request' = [request EXCEPT !.stage = "handler"]
            /\ response' = [response EXCEPT
                              !.headers = ("Cache-Control" :> Str("private")) @@ @]
    /\ UNCHANGED <<files, opts, matcher, setorder, session, issued, arg, states, chunks,
                   running, stack, idx, phase, ret, calls, outcomes>>

\* The request is at the handler of path p and method mth.
AtHandler(p, mth) ==
    request.stage = "handler" /\ request.path = p /\ request.method = mth

\* Lines 172-207.
LowDataAdapterGET ==
    /\ AtHandler(RootUrl, "GET")
    /\ request' = [request EXCEPT !.stage = "done"]
    /\ response' = [response EXCEPT !.status = 200]
    /\ UNCHANGED <<files, opts, matcher, setorder, session, issued, arg, states, chunks,
                   running, stack, idx, phase, ret, calls, outcomes>>

\* Lines 209-216: the low data runs (200) unless fmt_lowdata or the client
\* raised, which hypermedia_handler answers with 500 (lines 63-68).
LowDataAdapterPOST ==
    /\ AtHandler(RootUrl, "POST")
    /\ request' = [request EXCEPT !.stage = "done"]
    /\ \E st \in {200, 500} : response' = [response EXCEPT !.status = st]
    /\ UNCHANGED <<files, opts, matcher, setorder, session, issued, arg, states, chunks,
                   running, stack, idx, phase, ret, calls, outcomes>>

\* Lines 224-233.
LoginGET ==
    /\ AtHandler(LoginUrl, "GET")
    /\ request' = [request EXCEPT !.stage = "done"]
    /\ response' = [status |-> 401,
                    headers |-> ("WWW-Authenticate" :> Str("Session")) @@ response.headers]
    /\ UNCHANGED <<files, opts, matcher, setorder, session, issued, arg, states, chunks,
                   running, stack, idx, phase, ret, calls, outcomes>>

\* Lines 235-240.  `issued` gains what a successful login hands out: the
\* token and the X-Auth-Token value of the answer.
LoginPOST ==
    /\ AtHandler(LoginUrl, "POST")
    /\ \E made \in MkTokenResults :
          LET token == Get(made, "token", False)
          IN  /\ session' = [session EXCEPT
                               ![request.cookie] = ("token" :> token) @@ @]
              /\ issued' = IF "token" \in DOMAIN made
                           THEN issued \cup {token.str, request.cookie}
                           ELSE issued
    /\ response' = [status |-> 302,
                    headers |-> ("X-Auth-Token" :> Str(request.cookie)) @@ response.headers]
    /\ request' = [request EXCEPT !.stage = "done"]
    /\ UNCHANGED <<files, opts, matcher, setorder, arg, states, chunks, running, stack,
                   idx, phase, ret, calls, outcomes>>

\* The server after start(): no session yet, requests arrive one at a time.
RestInit ==
    /\ arg = <<>>
    /\ states = Catalog
    /\ chunks = <<>>
    /\ running = EmptyDict
    /\ stack = <<>>
    /\ idx = 1
    /\ phase = "serving"
    /\ ret = <<"none">>
    /\ calls = <<>>
    /\ outcomes = <<>>
    /\ Unused

RestNext ==
    \/ Receive
    \/ SaltAuthTool
    \/ LowDataAdapterGET
    \/ LowDataAdapterPOST
    \/ LoginGET
    \/ LoginPOST

RestSpec == RestInit /\ [][RestNext]_vars


(***************************************************************************)
(* The require graph of a chunk list.                                      *)
(***************************************************************************)
\* The chunks (positions) chunk i requires directly.
Required(cs, i) ==
    IF "require" \in DOMAIN cs[i] THEN Range(ReqsOf(cs[i].require, cs)) ELSE {}

\* The chunks reachable from chunk i through at most n require edges.
RECURSIVE Reach(_, _, _)
Reach(cs, i, n) ==
    IF n = 0 THEN {}
    ELSE Required(cs, i) \cup UNION {Reach(cs, j, n - 1) : j \in Required(cs, i)}

TransRequired(cs, i) == Reach(cs, i, Len(cs))

Acyclic(cs) == \A i \in 1..Len(cs) : i \notin TransRequired(cs, i)

\* The passes call_chunks makes over acyclic chunk lists (the lists that
\* passed verify_chunks).  The program is sequential and never stops of
\* itself before call_high has returned.
AcyclicInit == Init /\ Acyclic(chunks) /\ verify_chunks(states, chunks) = <<>>

FairSpec == AcyclicInit /\ [][Next]_vars /\ WF_vars(Next)

\* Two passes over one acyclic chunk list: call_high's pass and a second
\* call of call_chunks made by the caller.
PassInit ==
    /\ arg = <<"call_chunks">>
    /\ states = Catalog
    /\ \E pos \in SubSeqs(<<1, 2, 3, 4>>, MaxChunks) :
         \E variant \in [1..Len(pos) -> {1, 2}] :
            /\ \A k \in 1..Len(pos) : variant[k] <= Len(BaseChunks[pos[k]])
            /\ \E require \in [1..Len(pos) -> {NoRequire} \cup Requires] :
                  chunks = ChunkList(pos, variant, require)
    /\ Acyclic(chunks)
    /\ running = EmptyDict
    /\ stack = <<>>
    /\ idx = 1
    /\ phase = "start"
    /\ ret = <<"none">>
    /\ calls = [i \in 1..Len(chunks) |-> 0]
    /\ outcomes = [i \in 1..Len(chunks) |-> {}]
    /\ Unused

PassNext == Next \/ CallChunksAgain

PassSpec == PassInit /\ [][PassNext]_vars

InLedger(run, low) == Tag(low) \in DOMAIN run

Failed(run, low) == InLedger(run, low) /\ ~run[Tag(low)].result

Succeeded(run, low) == InLedger(run, low) /\ run[Tag(low)].result

Returned == phase = "done" /\ ret[1] = "ledger"

\* Every action returned the same result each time it was invoked.
Deterministic == \A i \in 1..Len(chunks) : Cardinality(outcomes[i]) <= 1

(***************************************************************************)
(* C1: in one pass over an acyclic chunk list the action of every chunk is *)
(* invoked at most once.                                                   *)
(***************************************************************************)
C1_InvokedAtMostOnce ==
    Acyclic(chunks) => \A i \in 1..Len(chunks) : calls[i] <= 1

(***************************************************************************)
(* C2: the ledger call_high returns for an acyclic chunk list has exactly  *)
(* the tags of the chunks as its keys, each entry being an action's result *)
(* or the require-failure.                                                 *)
(***************************************************************************)
C2_LedgerComplete ==
    (Returned /\ Acyclic(chunks)) =>
        /\ DOMAIN ret[2] = {Tag(chunks[i]) : i \in 1..Len(chunks)}
        /\ \A t \in DOMAIN ret[2] :
              ret[2][t] \in {ActionReturn(TRUE), ActionReturn(FALSE), RequireFailed}

C2_Witness ==
    /\ Returned
    /\ Acyclic(chunks)
    /\ Len(chunks) = MaxChunks
    /\ \E i, j \in 1..Len(chunks) :
          /\ j \in Required(chunks, i)
          /\ ret[2][Tag(chunks[i])] = RequireFailed
          /\ ret[2][Tag(chunks[j])] = ActionReturn(FALSE)

(***************************************************************************)
(* C3: when verify_data reports an error for some chunk, call_high returns *)
(* the concatenated errors and no action is ever invoked; an action is     *)
(* invoked only when verify_chunks returned the empty list.                *)
(***************************************************************************)
C3_FailsClosed ==
    LET errs == Flatten([i \in 1..Len(chunks) |-> verify_data(states, chunks[i])]) IN
    /\ errs # <<>> =>
          /\ \A i \in 1..Len(chunks) : calls[i] = 0
          /\ running = EmptyDict
          /\ phase # "running"
          /\ phase = "done" => ret = <<"errors", errs>>
    /\ (\E i \in 1..Len(chunks) : calls[i] > 0) => errs = <<>>

\* call_high returned two errors for a list that also has a valid chunk.
C3_Witness ==
    /\ phase = "done"
    /\ ret[1] = "errors"
    /\ Len(ret[2]) = 2
    /\ \E i \in 1..Len(chunks) : verify_data(states, chunks[i]) = <<>>

C5_NeverInvoked ==
    \A i \in 1..Len(chunks) :
        (Acyclic(chunks) /\ \E j \in Required(chunks, i) : Failed(running, chunks[j])) =>
            /\ calls[i] = 0
            /\ InLedger(running, chunks[i]) => running[Tag(chunks[i])] = RequireFailed

(***************************************************************************)
(* C6: after a pass over an acyclic chunk list with deterministic actions, *)
(* a chunk has a failed entry without having been invoked exactly when a   *)
(* chunk it requires, directly or transitively, has a failed entry; a      *)
(* chunk whose transitive requirements all succeeded was invoked and its   *)
(* entry is what the action returned.                                      *)
(***************************************************************************)
C6_FailureContained ==
    (Returned /\ Acyclic(chunks) /\ Deterministic) =>
        \A i \in 1..Len(chunks) :
            LET bad == \E j \in TransRequired(chunks, i) : Failed(ret[2], chunks[j]) IN
            /\ (calls[i] = 0 /\ Failed(ret[2], chunks[i])) <=> bad
            /\ ~bad => /\ calls[i] >= 1
                       /\ \E ok \in outcomes[i] : ret[2][Tag(chunks[i])] = ActionReturn(ok)

\* One chunk failed, the chunk requiring it was not invoked, and a chunk
\* that requires neither ran and succeeded.
C6_Witness ==
    /\ Returned /\ Acyclic(chunks) /\ Deterministic
    /\ \E i, j, k \in 1..Len(chunks) :
          /\ j \in Required(chunks, i)
          /\ ret[2][Tag(chunks[j])] = ActionReturn(FALSE)
          /\ ret[2][Tag(chunks[i])] = RequireFailed
          /\ calls[i] = 0
          /\ k \notin {i, j}
          /\ TransRequired(chunks, k) = {}
          /\ ret[2][Tag(chunks[k])] = ActionReturn(TRUE)

(***************************************************************************)
(* C7: for an acyclic chunk list call_chunks terminates and returns the    *)
(* ledger, and the retry of a chunk after its required chunks were         *)
(* resolved never finds the status unmet.                                  *)
(***************************************************************************)
\* The innermost call is the retry of line 240 and has not yet checked.
AtRetry ==
    /\ Len(stack) >= 2
    /\ stack[Len(stack) - 1].pc = "retried"
    /\ Top.pc = "call"

C7_Terminates ==
    /\ Acyclic(chunks) => <>Returned
    /\ [](Acyclic(chunks) /\ AtRetry =>
             check_requires(chunks[Top.low], running, chunks) # "unmet")

\* A pass over a chain of three chunks, each requiring the next, returned.
C7_Witness ==
    /\ Returned
    /\ Len(chunks) = 3
    /\ Acyclic(chunks)
    /\ 2 \in Required(chunks, 1)
    /\ 3 \in Required(chunks, 2)

(***************************************************************************)
(* The rules of a high-data tree.                                          *)
(***************************************************************************)
Rules(high) ==
    {[name |-> high[k].name, state |-> high[k].body[j].state, run |-> high[k].body[j].run]
        : <<k, j>> \in {p \in (1..Len(high)) \X (1..MaxRules) : p[2] <= Len(high[p[1]].body)}}

\* The key/value pairs of the dict elements of a run list.
Params(run) ==
    UNION {{<<key, run[i].dict[key]>> : key \in DOMAIN run[i].dict}
             : i \in {k \in 1..Len(run) : "dict" \in DOMAIN run[k]}}

(***************************************************************************)
(* C8: a rule with alternate names N and functions F compiles to exactly   *)
(* |N| x |F| chunks, and for every n in N and f in F one of them has       *)
(* name n and fun f.  (The chunks of a rule are told by its state module,  *)
(* so the rule is the only one of the tree with that state module.)        *)
(***************************************************************************)
C8_NamesTimesFuncs ==
    phase = "done" =>
        \A r \in Rules(arg) :
            LET N == AltNames(r.run)
                F == Funcs(r.run)
                mine == SelectSeq(ret[2], LAMBDA c : c.state = r.state)
            IN  (N # {} /\ \A q \in Rules(arg) : q.state = r.state => q = r) =>
                    /\ Len(mine) = Cardinality(N) * Cardinality(F)
                    /\ \A n \in N, f \in F :
                          \E k \in 1..Len(mine) : mine[k].name = n /\ mine[k].fun = f

(***************************************************************************)
(* C9: a tree in which no rule uses `names` and every rule lists exactly   *)
(* one function compiles to exactly one chunk per (name, state module),    *)
(* with that state, name, the listed function and every parameter of the   *)
(* rule's dict elements.                                                   *)
(***************************************************************************)
Plain(high) ==
    \A r \in Rules(high) : AltNames(r.run) = {} /\ Cardinality(Funcs(r.run)) = 1

C9_OneChunkPerRule ==
    (phase = "done" /\ Plain(arg)) =>
        /\ Len(ret[2]) = Cardinality(Rules(arg))
        /\ \A r \in Rules(arg) :
              LET ks == {k \in 1..Len(ret[2]) :
                            ret[2][k].state = r.state /\ ret[2][k].name = r.name}
              IN  /\ Cardinality(ks) = 1
                  /\ \A k \in ks :
                        /\ ret[2][k].fun \in Funcs(r.run)
                        /\ DOMAIN ret[2][k] =
                              {"state", "name", "fun"} \cup {p[1] : p \in Params(r.run)}
                        /\ \A p \in Params(r.run) : ret[2][k][p[1]] = p[2]

\* Two rules under two names compiled, one of them with a parameter.
C9_Witness ==
    /\ phase = "done"
    /\ Plain(arg)
    /\ Len(arg) = 2
    /\ Len(ret[2]) = 2
    /\ \E k \in 1..2 : "source" \in DOMAIN ret[2][k]
    /\ \E k \in 1..2 : "source" \notin DOMAIN ret[2][k]

(***************************************************************************)
(* C10: verify_data returns the empty list exactly when the chunk has      *)
(* state, fun and name, the action state.fun is registered and the chunk   *)
(* has a key for every declared parameter without a default; a chunk       *)
(* missing only name yields exactly the one error for name; with a base    *)
(* key missing, only base keys are reported.                               *)
(***************************************************************************)
BaseKeys == {"state", "fun", "name"}

Valid(sts, data) ==
    IF ~(BaseKeys \subseteq DOMAIN data) THEN FALSE
    ELSE IF data.state \o "." \o data.fun \notin DOMAIN sts THEN FALSE
    ELSE LET aspec == sts[data.state \o "." \o data.fun] IN
         \A k \in 1..Len(aspec.args) :
             k + Len(aspec.defaults) <= Len(aspec.args) => aspec.args[k] \in DOMAIN data

C10_VerifyData ==
    phase = "done" =>
        /\ ret[2] = <<>> <=> Valid(states, arg)
        /\ BaseKeys \ DOMAIN arg = {"name"} => ret[2] = <<"Missing \"name\" data">>
        /\ ~(BaseKeys \subseteq DOMAIN arg) =>
              /\ Len(ret[2]) = Cardinality(BaseKeys \ DOMAIN arg)
              /\ \A e \in Range(ret[2]) :
                    e \in {"Missing \"" \o k \o "\" data" : k \in BaseKeys \ DOMAIN arg}

\* A chunk was accepted that leaves out a parameter the action has a default
\* for, while it gives the one without.
C10_Witness ==
    /\ phase = "done"
    /\ ret[2] = <<>>
    /\ \E aspec \in Range(states) :
          /\ Len(aspec.args) = 2
          /\ Len(aspec.defaults) = 1
          /\ aspec.args[2] \notin DOMAIN arg

(***************************************************************************)
(* C11: for every chunk that passes verify_data and every signature,       *)
(* format_call returns the target state.fun and one argument per declared  *)
(* parameter, in order: the chunk's value when the chunk has the key, and  *)
(* the parameter's declared default otherwise.                             *)
(***************************************************************************)
\* The default the signature declares for the parameter at position k.
Declared(aspec, k) == aspec.defaults[k - (Len(aspec.args) - Len(aspec.defaults))]

C11_FormatCall ==
    (phase = "done" /\ verify_data(states, arg) = <<>>) =>
        LET full == arg.state \o "." \o arg.fun
            aspec == states[full]
        IN  ret = <<"return",
                    [full |-> full,
                     args |-> [k \in 1..Len(aspec.args) |->
                                 IF aspec.args[k] \in DOMAIN arg THEN arg[aspec.args[k]]
                                 ELSE Declared(aspec, k)]]>>

(***************************************************************************)
(* C12: when compile_template_str exits, by returning high data or an      *)
(* empty result or by an exception of the renderer or of the lookup of an  *)
(* unknown renderer name, the temporary file it created no longer exists.  *)
(***************************************************************************)
C12_NoTransientFile ==
    phase = "done" => DOMAIN files \cap TmpPaths = {}

(***************************************************************************)
(* C13: the mapping render_highstate returns has the union of the          *)
(* documents' names as its names, and under every name exactly the body of *)
(* the last document of the group that defines the name.                   *)
(***************************************************************************)
\* What the document at position k of the group compiles to.
Compiled(k) == IF arg[k] \in DOMAIN files THEN files[arg[k]].high ELSE EmptyDict

C13_LastWriteWins ==
    (phase = "done" /\ ret[1] = "return") =>
        /\ DOMAIN ret[2] = UNION {DOMAIN Compiled(k) : k \in 1..Len(arg)}
        /\ \A name \in DOMAIN ret[2] :
              \E k \in 1..Len(arg) :
                 /\ name \in DOMAIN Compiled(k)
                 /\ \A j \in (k + 1)..Len(arg) : name \notin DOMAIN Compiled(j)
                 /\ ret[2][name] = Compiled(k)[name]

\* Two documents define the name a with different bodies, and only the
\* first defines b.
C13_Witness ==
    /\ phase = "done"
    /\ ret[1] = "return"
    /\ Len(arg) = 2
    /\ "a" \in DOMAIN Compiled(1) /\ "a" \in DOMAIN Compiled(2)
    /\ Compiled(1)["a"] # Compiled(2)["a"]
    /\ "b" \in DOMAIN Compiled(1) /\ "b" \notin DOMAIN Compiled(2)
    /\ DOMAIN ret[2] = {"a", "b"}

(***************************************************************************)
(* C14: whenever call_chunk evaluates check_requires, the status is unmet  *)
(* if some required chunk has no ledger entry, else fail if some required  *)
(* chunk's entry records failure, else met, whatever the order of the      *)
(* require list and of the chunk list.                                     *)
(***************************************************************************)
Precedence(run, cs, i) ==
    IF \E j \in Required(cs, i) : ~InLedger(run, cs[j]) THEN "unmet"
    ELSE IF \E j \in Required(cs, i) : Failed(run, cs[j]) THEN "fail"
    ELSE "met"

C14_FixedPrecedence ==
    (stack # <<>> /\ Top.pc = "call" /\ "require" \in DOMAIN chunks[Top.low]) =>
        check_requires(chunks[Top.low], running, chunks)
            = Precedence(running, chunks, Top.low)

(***************************************************************************)
(* C15: for a chunk list whose require graph has a cycle (a chunk that     *)
(* requires itself included) call_chunks never returns a ledger.           *)
(***************************************************************************)
C15_CycleNeverReturns ==
    ~Acyclic(chunks) => ~Returned

(***************************************************************************)
(* C16: the chunks of a rule without `names` carry the top-level name the  *)
(* rule appears under: every such rule has a chunk with its state module   *)
(* and that name, and a chunk whose state module is used only by rules     *)
(* without `names` has the top-level name of one of these rules.           *)
(***************************************************************************)
C16_RuleKeepsName ==
    phase = "done" =>
        /\ \A r \in Rules(arg) :
              AltNames(r.run) = {} =>
                 \E k \in 1..Len(ret[2]) :
                    ret[2][k].state = r.state /\ ret[2][k].name = r.name
        /\ \A k \in 1..Len(ret[2]) :
              LET rs == {r \in Rules(arg) : r.state = ret[2][k].state} IN
              (\A r \in rs : AltNames(r.run) = {}) =>
                  \E r \in rs : ret[2][k].name = r.name

(***************************************************************************)
(* C17: in the list compile_high_data returns, the key state+name+fun of   *)
(* every chunk is less than or equal to the key of the chunk after it, and *)
(* a second compilation of the same high data returns the same sequence of *)
(* (state, name, fun) triples as the first.                                *)
(***************************************************************************)
Triples(cs) == [k \in 1..Len(cs) |-> <<cs[k].state, cs[k].name, cs[k].fun>>]

C18_NamesPulledOut ==
    phase = "done" =>
        /\ \A k \in 1..Len(ret[2]) : "names" \notin DOMAIN ret[2][k]
        /\ \A r \in Rules(arg) :
              (\A q \in Rules(arg) : q.state = r.state => q = r) =>
                 \A k \in 1..Len(ret[2]) :
                    ret[2][k].state = r.state =>
                       \A p \in Params(r.run) :
                          p[1] # "names" =>
                             p[1] \in DOMAIN ret[2][k] /\ ret[2][k][p[1]] = p[2]

(***************************************************************************)
(* C19: State.call on a chunk for which verify_data reports an error does  *)
(* not invoke the action.                                                  *)
(***************************************************************************)
C19_CallVerifies ==
    (phase = "done" /\ verify_data(states, arg) # <<>>) => calls[1] = 0

(***************************************************************************)
(* C20: for every environment of the top data, top_matches returns the str *)
(* entries of exactly the target lists whose match expression the matcher  *)
(* confirms; an environment none of whose match expressions is confirmed   *)
(* is not in the result.                                                   *)
(***************************************************************************)
\* The str entries of a target list.
StrEntries(data) == {data[i].str : i \in {k \in 1..Len(data) : "str" \in DOMAIN data[k]}}

C20_TopMatches ==
    phase = "done" =>
        /\ DOMAIN ret[2] \subseteq {arg[k].env : k \in 1..Len(arg)}
        /\ \A k \in 1..Len(arg) :
              LET body == arg[k].body
                  sat == {j \in 1..Len(body) : matcher[[str |-> body[j].match]]}
              IN  IF sat = {} THEN arg[k].env \notin DOMAIN ret[2]
                  ELSE /\ arg[k].env \in DOMAIN ret[2]
                       /\ Range(ret[2][arg[k].env])
                             = UNION {StrEntries(body[j].data) : j \in sat}

(***************************************************************************)
(* C21: a second pass of call_chunks over the same chunk list starts from  *)
(* an empty ledger, no pass changes the chunk list, and when every action  *)
(* returned the same result each time it was invoked, the ledger the       *)
(* second pass returns equals the ledger the first pass returned.          *)
(***************************************************************************)
\* The second pass is running; ret still holds the first pass's ledger.
SecondPass == phase = "running" /\ ret[1] = "ledger"

C21_PassesAgree ==
    /\ []((SecondPass /\ idx = 1 /\ stack = <<>>) => running = EmptyDict)
    /\ [][chunks' = chunks]_vars
    /\ [][(SecondPass /\ phase' = "done" /\ Deterministic') => ret'[2] = ret[2]]_vars

\* Both passes returned for a list in which a chunk fails, a chunk that
\* requires it is not invoked and a chunk is invoked twice per pass.
C21_Witness ==
    /\ phase = "done"
    /\ arg = <<>>
    /\ ret[1] = "ledger"
    /\ Deterministic
    /\ \E i, j \in 1..Len(chunks) :
          /\ ret[2][Tag(chunks[i])] = RequireFailed
          /\ ret[2][Tag(chunks[j])] = ActionReturn(FALSE)
    /\ \E i \in 1..Len(chunks) : calls[i] = 4

(***************************************************************************)
(* C22: for a chunk whose require entries match no chunk of the list,      *)
(* check_requires returns met, call_chunk invokes the chunk's action, the  *)
(* chunk's ledger entry is what the action returned, and the ledger has no *)
(* entry other than those of the chunks of the list.                       *)
(***************************************************************************)
\* Chunk i carries `require`, and no entry of it matches a chunk.
Dangling(i) == "require" \in DOMAIN chunks[i] /\ Required(chunks, i) = {}

Carried ==
    {v.str : v \in {w \in {Get(Session, "token", None),
                           Get(request.headers, "X-Auth-Token", None)} :
                      "str" \in DOMAIN w}}

C23_OnlyIssuedTokens ==
    (/\ request.stage = "handler"
     /\ ~request.redirected
     /\ ~StartsWith(request.path, LoginUrl)) =>
        Carried \cap issued # {}

====
